---- MODULE Spec2Model ----
(***************************************************************************)
(* krb5-sync (tools/krb5-sync.c): command-line access to the krb5-sync     *)
(* kadmind plugin.  One invocation either pushes a password and/or status  *)
(* change named on the command line, or replays one queue file and deletes *)
(* it on success.                                                          *)
(*                                                                         *)
(* A process is modelled by its position in main / process_queue_file      *)
(* (pc), the locals of those functions, and the history of the external    *)
(* calls it made (calls).  The queue file is shared state: a directory     *)
(* entry (fileExists) and the bytes behind it (fileContent).  Results of   *)
(* the external collaborators (Kerberos library, plugin, file system) are  *)
(* nondeterministic.                                                       *)
(***************************************************************************)
EXTENDS Integers, Sequences, FiniteSets, TLC

(***************************************************************************)
(* Bounds of the model.                                                    *)
(***************************************************************************)
\* Largest number of options on a command line.
MaxOpts == 2
\* sizeof(buffer): <stdio.h>'s BUFSIZ scaled down; every literal of the queue
\* grammar plus its newline still fits ("password\n" is 9 bytes).
BUFSIZ == 10

\* Processes (invocations of the program).  Spec runs process 1 alone; the
\* others stay idle.
Procs == {1, 2, 3}

(***************************************************************************)
(* C values.                                                               *)
(***************************************************************************)
\* A pointer is a sequence of length at most one: NULL, or Ptr(v).
NULL == <<>>
Ptr(v) == <<v>>
Deref(ptr) == ptr[1]

\* Characters are one-element strings; C strings are sequences of them.
NL == "\n"
NUL == "NUL"
S_ad == <<"a", "d">>
S_afs == <<"a", "f", "s">>
S_enable == <<"e", "n", "a", "b", "l", "e">>
S_disable == <<"d", "i", "s", "a", "b", "l", "e">>
S_password == <<"p", "a", "s", "s", "w", "o", "r", "d">>
S_bogus == <<"x">>
S_user == <<"u">>
S_pw == <<"p", "w">>
\* A line that cannot fit in the buffer together with its newline.
LongLine == [i \in 1..BUFSIZ |-> "x"]
\* The queue file's path.
QueuePath == "q"

\* Return values of the external calls: 0 is success, 1 stands for any error.
Rets == {0, 1}
\* Exit status of die, sysdie and die_krb5 (util/messages.c).
DieStatus == 1

(***************************************************************************)
(* Inputs: command lines and queue files.                                  *)
(***************************************************************************)
\* What getopt(argc, argv, "def:p:") returns for one option: the option
\* character and optarg; "?" is an unknown option or a missing argument.
Options ==
    { [opt |-> "d", arg |-> NULL],
      [opt |-> "e", arg |-> NULL],
      [opt |-> "f", arg |-> Ptr(QueuePath)],
      [opt |-> "p", arg |-> Ptr(S_pw)],
      [opt |-> "?", arg |-> NULL] }

OptSeqs == UNION { [1..n -> Options] : n \in 0..MaxOpts }

\* Number of bare (non-option) arguments left after the options.
BareCounts == {0, 1, 2}

CommandLines == [opts : OptSeqs, nbare : BareCounts]

\* The candidate texts of the lines of a queue file, by position.  A fourth
\* line after "enable" or "disable" is a line the grammar has no place for.
LineChoices ==
    << {S_user},
       {S_ad, S_afs},
       {S_enable, S_disable, S_password, S_bogus},
       {S_pw, <<>>, <<NUL>>, LongLine} >>

LineSeqs(n) ==
    { ls \in [1..n -> UNION { LineChoices[i] : i \in 1..Len(LineChoices) }] :
        \A i \in 1..n : ls[i] \in LineChoices[i] }

RECURSIVE JoinLines(_)
\* The bytes of a file made of these lines, each ended by a newline.
JoinLines(ls) ==
    IF ls = <<>> THEN <<>>
    ELSE Head(ls) \o <<NL>> \o JoinLines(Tail(ls))

\* The file with its last newline cut off: the last line ends at end-of-file.
Unterminated(bytes) ==
    IF bytes = <<>> THEN bytes ELSE SubSeq(bytes, 1, Len(bytes) - 1)

QueueFiles ==
    UNION { { JoinLines(ls) : ls \in LineSeqs(n) }
            \cup { Unterminated(JoinLines(ls)) : ls \in LineSeqs(n) } :
            n \in 0..Len(LineChoices) }

(***************************************************************************)
(* C library functions, as the code uses them.                             *)
(***************************************************************************)
Min(a, b) == IF a < b THEN a ELSE b

\* strlen of the C string held in a buffer whose bytes read so far are s
\* (fgets writes a NUL after them): the number of bytes before the first NUL.
strlen(s) ==
    IF \E i \in 1..Len(s) : s[i] = NUL
    THEN (CHOOSE i \in 1..Len(s) :
              s[i] = NUL /\ \A j \in 1..(i - 1) : s[j] # NUL) - 1
    ELSE Len(s)

\* fgets(buffer, bufsiz, file) with the file offset at pos: NULL at
\* end-of-file, else at most bufsiz - 1 bytes, stopping after a newline.
fgets(content, pos, bufsiz) ==
    LET avail == Len(content) - pos
        n == Min(avail, bufsiz - 1)
        k == IF \E i \in 1..n : content[pos + i] = NL
             THEN CHOOSE i \in 1..n :
                      content[pos + i] = NL
                      /\ \A j \in 1..(i - 1) : content[pos + j] # NL
             ELSE n
    IN  IF avail <= 0
        THEN [null |-> TRUE, got |-> <<>>, pos |-> pos]
        ELSE [null |-> FALSE, got |-> SubSeq(content, pos + 1, pos + k),
              pos |-> pos + k]

\* The outcomes of read_line: "ok" with the line read (newline cut off), or
\* "sysdie" (fgets returned NULL: end-of-file or a read error), or "die"
\* (line too long).  When the bytes read start with a NUL, strlen(buffer) is
\* 0 and the code reads, and may write, buffer[-1]: undefined behaviour,
\* whose outcomes are both branches of the test.  nl tells whether the bytes
\* fgets consumed ended with a newline.
read_line(content, pos, bufsiz) ==
    LET r == fgets(content, pos, bufsiz)
        n == strlen(r.got)
        nl == r.got # <<>> /\ r.got[Len(r.got)] = NL
    IN  { [kind |-> "sysdie", line |-> <<>>, pos |-> pos, nl |-> FALSE] }
        \cup
        (IF r.null THEN {}
         ELSE IF n = 0
              THEN { [kind |-> "die", line |-> <<>>, pos |-> r.pos, nl |-> nl],
                     [kind |-> "ok", line |-> <<>>, pos |-> r.pos, nl |-> nl] }
         ELSE IF r.got[n] # NL
              THEN { [kind |-> "die", line |-> <<>>, pos |-> r.pos, nl |-> nl] }
         ELSE { [kind |-> "ok", line |-> SubSeq(r.got, 1, n - 1),
                 pos |-> r.pos, nl |-> nl] })

\* krb5_parse_name: the principal is an opaque identity made from the text.
Principal(text) == <<"principal", text>>

(***************************************************************************)
(* State.                                                                  *)
(***************************************************************************)
VARIABLES
    argv,         \* [p]: the command line: getopt's options, bare-argument count
    optind,       \* [p]: number of options getopt has returned so far
    enable,       \* [p]: main's enable
    disable,      \* [p]: main's disable
    password,     \* [p]: main's password: NULL or a pointer to the -p value
    filename,     \* [p]: main's filename: NULL or a pointer to the -f value
    pc,           \* [p]: position in main / process_queue_file
    status,       \* [p]: NULL while running, then a pointer to the exit status
    fpos,         \* [p]: process_queue_file's queue: NULL or the stream's offset
    buffer,       \* [p]: process_queue_file's buffer, as a C string
    user,         \* [p]: the user name (main's argv[0], or the copy of line 1)
    principal,    \* [p]: the parsed principal, NULL before krb5_parse_name
    qflag,        \* [p]: process_queue_file's ad, enable, disable, password
    calls,        \* [p]: history of the external calls made, in order
    fileExists,   \* the queue file's directory entry
    fileContent,  \* the queue file's bytes
    file0,        \* the queue file as it was when the processes started
    healthy       \* the environment has stopped failing: every call succeeds

mainVars == <<argv, optind, enable, disable, password, filename>>
queueVars == <<fpos, buffer, qflag>>
nameVars == <<user, principal>>
fileVars == <<fileExists, fileContent, file0>>
envVars == <<healthy>>
vars == <<mainVars, queueVars, nameVars, fileVars, envVars, pc, status, calls>>

\* One external call: the function, its principal argument, its password
\* argument and length, its enable argument, and what it returned (0 is
\* success).  For read_line, pw is the line read and en is 1 when the bytes
\* consumed ended with a newline.
Call(fn, princ, pw, len, en, res) ==
    [fn |-> fn, princ |-> princ, pw |-> pw, len |-> len, en |-> en,
     res |-> res]

Record(p, call) == calls' = [calls EXCEPT ![p] = Append(@, call)]

Goto(p, label) == pc' = [pc EXCEPT ![p] = label] /\ UNCHANGED status

\* exit(code).
Exit(p, code) ==
    /\ pc' = [pc EXCEPT ![p] = "exited"]
    /\ status' = [status EXCEPT ![p] = Ptr(code)]

\* die, sysdie, die_krb5: report and exit; they do not return.
die(p) == Exit(p, DieStatus)

(***************************************************************************)
(* Initial states.                                                         *)
(***************************************************************************)
\* A process at the start of main, given its command line.
InitProcs(started) ==
    /\ argv \in { [p \in Procs |->
                       IF p \in started THEN a[p]
                       ELSE [opts |-> <<>>, nbare |-> 0]] :
                    a \in [started -> CommandLines] }
    /\ optind = [p \in Procs |-> 0]
    /\ enable = [p \in Procs |-> 0]
    /\ disable = [p \in Procs |-> 0]
    /\ password = [p \in Procs |-> NULL]
    /\ filename = [p \in Procs |-> NULL]
    /\ pc = [p \in Procs |-> IF p \in started THEN "getopt" ELSE "idle"]
    /\ status = [p \in Procs |-> NULL]
    /\ fpos = [p \in Procs |-> NULL]
    /\ buffer = [p \in Procs |-> <<>>]
    /\ user = [p \in Procs |-> NULL]
    /\ principal = [p \in Procs |-> NULL]
    /\ qflag = [p \in Procs |->
                  [ad |-> 0, enable |-> 0, disable |-> 0, password |-> 0]]
    /\ calls = [p \in Procs |-> <<>>]

\* The queue file is absent, or holds any of the candidate files.
InitFile ==
    /\ fileExists \in BOOLEAN
    /\ fileContent \in (IF fileExists THEN QueueFiles ELSE {<<>>})
    /\ file0 = [exists |-> fileExists, content |-> fileContent]

\* The environment makes no promise: any external call may fail.
InitEnv == healthy = FALSE

Init == InitFile /\ InitProcs({1}) /\ InitEnv

(***************************************************************************)
(* main: option parsing and validation.                                    *)
(***************************************************************************)
\* One turn of the getopt loop (lines 174-192): the next option sets its
\* variable; an unknown option prints the usage and exits 1; at the end of
\* the options the loop is left.
main_getopt(p) ==
    /\ pc[p] = "getopt"
    /\ IF optind[p] = Len(argv[p].opts)
       THEN /\ Goto(p, "validate")
            /\ UNCHANGED <<optind, enable, disable, password, filename>>
       ELSE LET o == argv[p].opts[optind[p] + 1] IN
            /\ optind' = [optind EXCEPT ![p] = @ + 1]
            /\ disable' = [disable EXCEPT ![p] = IF o.opt = "d" THEN 1 ELSE @]
            /\ enable' = [enable EXCEPT ![p] = IF o.opt = "e" THEN 1 ELSE @]
            /\ filename' = [filename EXCEPT
                              ![p] = IF o.opt = "f" THEN o.arg ELSE @]
            /\ password' = [password EXCEPT
                              ![p] = IF o.opt = "p" THEN o.arg ELSE @]
            /\ IF o.opt \in {"d", "e", "f", "p"}
               THEN Goto(p, "getopt")
               ELSE Exit(p, 1)
    /\ UNCHANGED <<argv, queueVars, nameVars, fileVars, envVars, calls>>

\* main's validation without the test of enable && disable.
main_validate_no_exclusive(p) ==
    /\ pc[p] = "validate"
    /\ LET argc == argv[p].nbare IN
       IF argc # 1 /\ filename[p] = NULL
       THEN Exit(p, 1) /\ UNCHANGED user
       ELSE IF argc # 0 /\ filename[p] # NULL
       THEN Exit(p, 1) /\ UNCHANGED user
       ELSE /\ user' = [user EXCEPT
                          ![p] = IF argc = 0 THEN NULL ELSE Ptr(S_user)]
            /\ IF enable[p] = 0 /\ disable[p] = 0 /\ password[p] = NULL
                  /\ filename[p] = NULL
               THEN die(p)
               ELSE IF filename[p] # NULL
                       /\ (enable[p] = 1 \/ disable[p] = 1
                           \/ password[p] # NULL)
               THEN die(p)
               ELSE Goto(p, "init_context")
    /\ UNCHANGED <<mainVars, queueVars, principal, fileVars, envVars, calls>>

\* main's validation without the test for "no action specified".
main_validate_no_action(p) ==
    /\ pc[p] = "validate"
    /\ LET argc == argv[p].nbare IN
       IF argc # 1 /\ filename[p] = NULL
       THEN Exit(p, 1) /\ UNCHANGED user
       ELSE IF argc # 0 /\ filename[p] # NULL
       THEN Exit(p, 1) /\ UNCHANGED user
       ELSE /\ user' = [user EXCEPT
                          ![p] = IF argc = 0 THEN NULL ELSE Ptr(S_user)]
            /\ IF enable[p] = 1 /\ disable[p] = 1
               THEN die(p)
               ELSE IF filename[p] # NULL
                       /\ (enable[p] = 1 \/ disable[p] = 1
                           \/ password[p] # NULL)
               THEN die(p)
               ELSE Goto(p, "init_context")
    /\ UNCHANGED <<mainVars, queueVars, principal, fileVars, envVars, calls>>

\* Lines 193-209: the usage checks on the bare arguments, user = argv[0],
\* and the three checks on the combination of options.
main_validate(p) ==
    /\ pc[p] = "validate"
    /\ LET argc == argv[p].nbare IN
       IF argc # 1 /\ filename[p] = NULL
       THEN Exit(p, 1) /\ UNCHANGED user
       ELSE IF argc # 0 /\ filename[p] # NULL
       THEN Exit(p, 1) /\ UNCHANGED user
       ELSE /\ user' = [user EXCEPT
                          ![p] = IF argc = 0 THEN NULL ELSE Ptr(S_user)]
            /\ IF enable[p] = 1 /\ disable[p] = 1
               THEN die(p)
               ELSE IF enable[p] = 0 /\ disable[p] = 0 /\ password[p] = NULL
                       /\ filename[p] = NULL
               THEN die(p)
               ELSE IF filename[p] # NULL
                       /\ (enable[p] = 1 \/ disable[p] = 1
                           \/ password[p] # NULL)
               THEN die(p)
               ELSE Goto(p, "init_context")
    /\ UNCHANGED <<mainVars, queueVars, principal, fileVars, envVars, calls>>

\* krb5_init_context with its return value ignored.
main_init_context_unchecked(p) ==
    /\ pc[p] = "init_context"
    /\ \E ret \in Rets :
        /\ Record(p, Call("krb5_init_context", NULL, NULL, 0, 0, ret))
        /\ Goto(p, "pwupdate_init")
    /\ UNCHANGED <<mainVars, queueVars, nameVars, fileVars, envVars>>

\* Lines 211-214: krb5_init_context.
main_init_context(p) ==
    /\ pc[p] = "init_context"
    /\ \E ret \in Rets :
        /\ Record(p, Call("krb5_init_context", NULL, NULL, 0, 0, ret))
        /\ IF ret # 0 THEN die(p) ELSE Goto(p, "pwupdate_init")
    /\ UNCHANGED <<mainVars, queueVars, nameVars, fileVars, envVars>>

\* Lines 216-222: pwupdate_init, then the choice between the queue file and
\* the command line's action.
main_pwupdate_init(p) ==
    /\ pc[p] = "pwupdate_init"
    /\ \E ret \in Rets :
        /\ Record(p, Call("pwupdate_init", NULL, NULL, 0, 0, ret))
        /\ IF ret # 0
           THEN die(p)
           ELSE IF filename[p] # NULL
                THEN Goto(p, "fopen")
                ELSE Goto(p, "parse_name")
    /\ UNCHANGED <<mainVars, queueVars, nameVars, fileVars, envVars>>

(***************************************************************************)
(* The action executors.                                                   *)
(***************************************************************************)
\* ad_password with the status of pwupdate_ad_change ignored.
ad_password_unchecked(p) ==
    /\ pc[p] \in {"q_ad_password", "d_ad_password"}
    /\ LET pw == IF pc[p] = "q_ad_password"
                 THEN buffer[p] ELSE Deref(password[p])
       IN  \E st \in Rets :
            /\ Record(p, Call("pwupdate_ad_change", principal[p], pw,
                              strlen(pw), 0, st))
            /\ IF pc[p] = "q_ad_password"
               THEN Goto(p, "unlink")
               ELSE IF enable[p] = 1 \/ disable[p] = 1
                    THEN Goto(p, "d_ad_status")
                    ELSE Goto(p, "exit")
    /\ UNCHANGED <<mainVars, queueVars, nameVars, fileVars, envVars>>

\* ad_password with main's status change made an alternative of the
\* password change ("else if") instead of following it.
ad_password_else(p) ==
    /\ pc[p] \in {"q_ad_password", "d_ad_password"}
    /\ LET pw == IF pc[p] = "q_ad_password"
                 THEN buffer[p] ELSE Deref(password[p])
       IN  \E st \in Rets :
            /\ Record(p, Call("pwupdate_ad_change", principal[p], pw,
                              strlen(pw), 0, st))
            /\ IF st # 0
               THEN die(p)
               ELSE IF pc[p] = "q_ad_password"
                    THEN Goto(p, "unlink")
                    ELSE Goto(p, "exit")
    /\ UNCHANGED <<mainVars, queueVars, nameVars, fileVars, envVars>>

\* ad_password with process_queue_file's status change following the
\* password change instead of being its alternative.
ad_password_fallthrough(p) ==
    /\ pc[p] \in {"q_ad_password", "d_ad_password"}
    /\ LET pw == IF pc[p] = "q_ad_password"
                 THEN buffer[p] ELSE Deref(password[p])
       IN  \E st \in Rets :
            /\ Record(p, Call("pwupdate_ad_change", principal[p], pw,
                              strlen(pw), 0, st))
            /\ IF st # 0
               THEN die(p)
               ELSE IF pc[p] = "q_ad_password"
                    THEN Goto(p, "q_ad_status")
                    ELSE IF enable[p] = 1 \/ disable[p] = 1
                         THEN Goto(p, "d_ad_status")
                         ELSE Goto(p, "exit")
    /\ UNCHANGED <<mainVars, queueVars, nameVars, fileVars, envVars>>

\* ad_password returning into the queue-file cleanup whichever caller it
\* has.
ad_password_cleanup(p) ==
    /\ pc[p] \in {"q_ad_password", "d_ad_password"}
    /\ LET pw == IF pc[p] = "q_ad_password"
                 THEN buffer[p] ELSE Deref(password[p])
       IN  \E st \in Rets :
            /\ Record(p, Call("pwupdate_ad_change", principal[p], pw,
                              strlen(pw), 0, st))
            /\ IF st # 0 THEN die(p) ELSE Goto(p, "unlink")
    /\ UNCHANGED <<mainVars, queueVars, nameVars, fileVars, envVars>>

\* ad_password (lines 34-46), called from process_queue_file with the
\* buffer (line 140) or from main with the -p value (line 228): one
\* pwupdate_ad_change call; a non-zero status is fatal.
ad_password(p) ==
    /\ pc[p] \in {"q_ad_password", "d_ad_password"}
    /\ LET pw == IF pc[p] = "q_ad_password"
                 THEN buffer[p] ELSE Deref(password[p])
       IN  \E st \in Rets :
            /\ Record(p, Call("pwupdate_ad_change", principal[p], pw,
                              strlen(pw), 0, st))
            /\ IF st # 0
               THEN die(p)
               ELSE IF pc[p] = "q_ad_password"
                    THEN Goto(p, "unlink")
                    ELSE IF enable[p] = 1 \/ disable[p] = 1
                         THEN Goto(p, "d_ad_status")
                         ELSE Goto(p, "exit")
    /\ UNCHANGED <<mainVars, queueVars, nameVars, fileVars, envVars>>

\* ad_status with the status of pwupdate_ad_status ignored.
ad_status_unchecked(p) ==
    /\ pc[p] \in {"q_ad_status", "d_ad_status"}
    /\ LET en == IF pc[p] = "q_ad_status" THEN qflag[p].enable ELSE enable[p]
       IN  \E st \in Rets :
            /\ Record(p, Call("pwupdate_ad_status", principal[p], NULL, 0,
                              en, st))
            /\ IF pc[p] = "q_ad_status"
               THEN Goto(p, "unlink")
               ELSE Goto(p, "exit")
    /\ UNCHANGED <<mainVars, queueVars, nameVars, fileVars, envVars>>

\* ad_status (lines 53-65), called from process_queue_file (line 142) or
\* from main (line 230): one pwupdate_ad_status call; a non-zero status is
\* fatal.
ad_status(p) ==
    /\ pc[p] \in {"q_ad_status", "d_ad_status"}
    /\ LET en == IF pc[p] = "q_ad_status" THEN qflag[p].enable ELSE enable[p]
       IN  \E st \in Rets :
            /\ Record(p, Call("pwupdate_ad_status", principal[p], NULL, 0,
                              en, st))
            /\ IF st # 0
               THEN die(p)
               ELSE IF pc[p] = "q_ad_status"
                    THEN Goto(p, "unlink")
                    ELSE Goto(p, "exit")
    /\ UNCHANGED <<mainVars, queueVars, nameVars, fileVars, envVars>>

(***************************************************************************)
(* process_queue_file.                                                     *)
(***************************************************************************)
\* Lines 109-111: fopen(filename, "r").  It fails when the file is not
\* there, and may fail for other reasons.
pqf_fopen(p) ==
    /\ pc[p] = "fopen"
    /\ \E ok \in (IF fileExists THEN BOOLEAN ELSE {FALSE}) :
        /\ Record(p, Call("fopen", NULL, NULL, 0, 0, IF ok THEN 0 ELSE 1))
        /\ IF ok
           THEN fpos' = [fpos EXCEPT ![p] = Ptr(0)] /\ Goto(p, "read_user")
           ELSE UNCHANGED fpos /\ die(p)
    /\ UNCHANGED <<mainVars, buffer, qflag, nameVars, fileVars, envVars>>

\* One call of read_line on the queue (lines 72-80): on "ok" the buffer
\* holds the line and the stream has moved; otherwise the process dies.
ReadQueueLine(p, r) ==
    /\ r \in read_line(fileContent, Deref(fpos[p]), BUFSIZ)
    /\ Record(p, Call("read_line", NULL, r.line, 0, IF r.nl THEN 1 ELSE 0,
                      IF r.kind = "ok" THEN 0 ELSE 1))
    /\ fpos' = [fpos EXCEPT ![p] = Ptr(r.pos)]
    /\ buffer' = [buffer EXCEPT ![p] = IF r.kind = "ok" THEN r.line ELSE @]

\* Lines 113-115: read the user line and copy it.
pqf_read_user(p) ==
    /\ pc[p] = "read_user"
    /\ \E r \in read_line(fileContent, Deref(fpos[p]), BUFSIZ) :
        /\ ReadQueueLine(p, r)
        /\ IF r.kind = "ok"
           THEN /\ user' = [user EXCEPT ![p] = Ptr(r.line)]
                /\ Goto(p, "parse_user")
           ELSE UNCHANGED user /\ die(p)
    /\ UNCHANGED <<mainVars, qflag, principal, fileVars, envVars>>

\* krb5_parse_name on the user line with its return value ignored.
pqf_parse_name_unchecked(p) ==
    /\ pc[p] = "parse_user"
    /\ \E ret \in Rets :
        /\ Record(p, Call("krb5_parse_name", NULL, buffer[p], 0, 0, ret))
        /\ principal' = [principal EXCEPT ![p] = Ptr(Principal(buffer[p]))]
        /\ Goto(p, "read_system")
    /\ UNCHANGED <<mainVars, queueVars, user, fileVars, envVars>>

\* Lines 116-118: krb5_parse_name on the user line.
pqf_parse_name(p) ==
    /\ pc[p] = "parse_user"
    /\ \E ret \in Rets :
        /\ Record(p, Call("krb5_parse_name", NULL, buffer[p], 0, 0, ret))
        /\ IF ret # 0
           THEN UNCHANGED principal /\ die(p)
           ELSE /\ principal' = [principal EXCEPT
                                   ![p] = Ptr(Principal(buffer[p]))]
                /\ Goto(p, "read_system")
    /\ UNCHANGED <<mainVars, queueVars, user, fileVars, envVars>>

\* The target-system step with an unknown target tolerated: ad stays 0 and
\* processing goes on.
pqf_read_system_lenient(p) ==
    /\ pc[p] = "read_system"
    /\ \E r \in read_line(fileContent, Deref(fpos[p]), BUFSIZ) :
        /\ ReadQueueLine(p, r)
        /\ IF r.kind = "ok"
           THEN /\ qflag' = [qflag EXCEPT
                               ![p].ad = IF r.line = S_ad THEN 1 ELSE 0]
                /\ Goto(p, "read_action")
           ELSE UNCHANGED qflag /\ die(p)
    /\ UNCHANGED <<mainVars, nameVars, fileVars, envVars>>

\* Lines 120-125: read the target system; anything but "ad" is fatal.
pqf_read_system(p) ==
    /\ pc[p] = "read_system"
    /\ \E r \in read_line(fileContent, Deref(fpos[p]), BUFSIZ) :
        /\ ReadQueueLine(p, r)
        /\ IF r.kind = "ok" /\ r.line = S_ad
           THEN /\ qflag' = [qflag EXCEPT ![p].ad = 1]
                /\ Goto(p, "read_action")
           ELSE UNCHANGED qflag /\ die(p)
    /\ UNCHANGED <<mainVars, nameVars, fileVars, envVars>>

\* The action step without the final else: an unknown action falls through
\* to the cleanup.
pqf_read_action_lenient(p) ==
    /\ pc[p] = "read_action"
    /\ \E r \in read_line(fileContent, Deref(fpos[p]), BUFSIZ) :
        /\ ReadQueueLine(p, r)
        /\ IF r.kind # "ok"
           THEN UNCHANGED qflag /\ die(p)
           ELSE IF r.line = S_enable
           THEN /\ qflag' = [qflag EXCEPT ![p].enable = 1]
                /\ Goto(p, "q_ad_status")
           ELSE IF r.line = S_disable
           THEN /\ qflag' = [qflag EXCEPT ![p].disable = 1]
                /\ Goto(p, "q_ad_status")
           ELSE IF r.line = S_password
           THEN /\ qflag' = [qflag EXCEPT ![p].password = 1]
                /\ Goto(p, "read_password")
           ELSE UNCHANGED qflag /\ Goto(p, "unlink")
    /\ UNCHANGED <<mainVars, nameVars, fileVars, envVars>>

\* The action step with the payload line read for enable too.
pqf_read_action_payload(p) ==
    /\ pc[p] = "read_action"
    /\ \E r \in read_line(fileContent, Deref(fpos[p]), BUFSIZ) :
        /\ ReadQueueLine(p, r)
        /\ IF r.kind # "ok"
           THEN UNCHANGED qflag /\ die(p)
           ELSE IF r.line = S_enable
           THEN /\ qflag' = [qflag EXCEPT ![p].enable = 1]
                /\ Goto(p, "read_password")
           ELSE IF r.line = S_disable
           THEN /\ qflag' = [qflag EXCEPT ![p].disable = 1]
                /\ Goto(p, "q_ad_status")
           ELSE IF r.line = S_password
           THEN /\ qflag' = [qflag EXCEPT ![p].password = 1]
                /\ Goto(p, "read_password")
           ELSE UNCHANGED qflag /\ die(p)
    /\ UNCHANGED <<mainVars, nameVars, fileVars, envVars>>

\* Lines 126-143, up to the executor's call: read the action; anything but
\* "enable", "disable" or "password" is fatal.
pqf_read_action(p) ==
    /\ pc[p] = "read_action"
    /\ \E r \in read_line(fileContent, Deref(fpos[p]), BUFSIZ) :
        /\ ReadQueueLine(p, r)
        /\ IF r.kind # "ok"
           THEN UNCHANGED qflag /\ die(p)
           ELSE IF r.line = S_enable
           THEN /\ qflag' = [qflag EXCEPT ![p].enable = 1]
                /\ Goto(p, "q_ad_status")
           ELSE IF r.line = S_disable
           THEN /\ qflag' = [qflag EXCEPT ![p].disable = 1]
                /\ Goto(p, "q_ad_status")
           ELSE IF r.line = S_password
           THEN /\ qflag' = [qflag EXCEPT ![p].password = 1]
                /\ Goto(p, "read_password")
           ELSE UNCHANGED qflag /\ die(p)
    /\ UNCHANGED <<mainVars, nameVars, fileVars, envVars>>

\* The password line's step with the test of ad inverted: the password is
\* read and never sent.
pqf_read_password_skip(p) ==
    /\ pc[p] = "read_password"
    /\ \E r \in read_line(fileContent, Deref(fpos[p]), BUFSIZ) :
        /\ ReadQueueLine(p, r)
        /\ IF r.kind # "ok"
           THEN die(p)
           ELSE IF qflag[p].ad # 1
                THEN Goto(p, "q_ad_password")
                ELSE Goto(p, "unlink")
    /\ UNCHANGED <<mainVars, qflag, nameVars, fileVars, envVars>>

\* Lines 137-140: for a password action, read the password line.
pqf_read_password(p) ==
    /\ pc[p] = "read_password"
    /\ \E r \in read_line(fileContent, Deref(fpos[p]), BUFSIZ) :
        /\ ReadQueueLine(p, r)
        /\ IF r.kind # "ok"
           THEN die(p)
           ELSE IF qflag[p].ad = 1
                THEN Goto(p, "q_ad_password")
                ELSE Goto(p, "unlink")
    /\ UNCHANGED <<mainVars, qflag, nameVars, fileVars, envVars>>

\* The unlink step with its test inverted: fatal when the unlink succeeded.
pqf_unlink_inverted(p) ==
    /\ pc[p] = "unlink"
    /\ fpos' = [fpos EXCEPT ![p] = NULL]
    /\ \E ok \in (IF fileExists THEN BOOLEAN ELSE {FALSE}) :
        /\ Record(p, Call("unlink", NULL, NULL, 0, 0, IF ok THEN 0 ELSE 1))
        /\ IF ok
           THEN fileExists' = FALSE /\ die(p)
           ELSE UNCHANGED fileExists /\ Goto(p, "exit")
    /\ UNCHANGED <<mainVars, buffer, qflag, nameVars, fileContent, file0,
                 envVars>>

\* The unlink step with the result of unlink ignored.
pqf_unlink_unchecked(p) ==
    /\ pc[p] = "unlink"
    /\ fpos' = [fpos EXCEPT ![p] = NULL]
    /\ \E ok \in (IF fileExists THEN BOOLEAN ELSE {FALSE}) :
        /\ Record(p, Call("unlink", NULL, NULL, 0, 0, IF ok THEN 0 ELSE 1))
        /\ fileExists' = (fileExists /\ ~ok)
        /\ Goto(p, "exit")
    /\ UNCHANGED <<mainVars, buffer, qflag, nameVars, fileContent, file0,
                 envVars>>

\* Lines 145-149: close the queue and unlink the file.  unlink fails when
\* the file is no longer there, and may fail for other reasons.
pqf_unlink(p) ==
    /\ pc[p] = "unlink"
    /\ fpos' = [fpos EXCEPT ![p] = NULL]
    /\ \E ok \in (IF fileExists THEN BOOLEAN ELSE {FALSE}) :
        /\ Record(p, Call("unlink", NULL, NULL, 0, 0, IF ok THEN 0 ELSE 1))
        /\ IF ok
           THEN fileExists' = FALSE /\ Goto(p, "exit")
           ELSE UNCHANGED fileExists /\ die(p)
    /\ UNCHANGED <<mainVars, buffer, qflag, nameVars, fileContent, file0,
                 envVars>>

(***************************************************************************)
(* main: the command line's action.                                        *)
(***************************************************************************)
\* Lines 224-229, up to the executor's call: krb5_parse_name on the bare
\* argument.
main_parse_name(p) ==
    /\ pc[p] = "parse_name"
    /\ \E ret \in Rets :
        /\ Record(p, Call("krb5_parse_name", NULL, Deref(user[p]), 0, 0, ret))
        /\ IF ret # 0
           THEN UNCHANGED principal /\ die(p)
           ELSE /\ principal' = [principal EXCEPT
                                   ![p] = Ptr(Principal(Deref(user[p])))]
                /\ IF password[p] # NULL
                   THEN Goto(p, "d_ad_password")
                   ELSE IF enable[p] = 1 \/ disable[p] = 1
                        THEN Goto(p, "d_ad_status")
                        ELSE Goto(p, "exit")
    /\ UNCHANGED <<mainVars, queueVars, user, fileVars, envVars>>

\* Line 233: exit(0).
main_exit(p) ==
    /\ pc[p] = "exit"
    /\ Exit(p, 0)
    /\ UNCHANGED <<mainVars, queueVars, nameVars, fileVars, envVars, calls>>

(***************************************************************************)
(* Specification: one invocation.                                          *)
(***************************************************************************)
Step(p) ==
    \/ main_getopt(p)
    \/ main_validate(p)
    \/ main_init_context(p)
    \/ main_pwupdate_init(p)
    \/ pqf_fopen(p)
    \/ pqf_read_user(p)
    \/ pqf_parse_name(p)
    \/ pqf_read_system(p)
    \/ pqf_read_action(p)
    \/ pqf_read_password(p)
    \/ pqf_unlink(p)
    \/ main_parse_name(p)
    \/ ad_password(p)
    \/ ad_status(p)
    \/ main_exit(p)

Next == \E p \in Procs : Step(p)

Spec == Init /\ [][Next]_vars

(***************************************************************************)
(* Vocabulary of the properties.                                           *)
(***************************************************************************)
Exited(p) == pc[p] = "exited"
Done(p) == status[p] = Ptr(0)
Fatal(p) == Exited(p) /\ status[p] # Ptr(0)

Idx(p) == 1..Len(calls[p])
Made(p, fn) == \E i \in Idx(p) : calls[p][i].fn = fn
Succeeded(p, fn) ==
    \E i \in Idx(p) : calls[p][i].fn = fn /\ calls[p][i].res = 0
Failed(p, fn) ==
    \E i \in Idx(p) : calls[p][i].fn = fn /\ calls[p][i].res # 0
LastCall(p) == calls[p][Len(calls[p])]

BackendFns == {"pwupdate_ad_change", "pwupdate_ad_status"}
IsBackend(c) == c.fn \in BackendFns
BackendCalls(p) == SelectSeq(calls[p], IsBackend)

\* What the command line gives.
HasOpt(a, o) == \E i \in 1..Len(a.opts) : a.opts[i].opt = o

\* The invocation got past the validation of its command line.
Passed(p) ==
    /\ pc[p] \notin {"idle", "getopt", "validate"}
    /\ pc[p] = "exited" => calls[p] # <<>>
QueueMode(p) == Passed(p) /\ filename[p] # NULL
DirectMode(p) == Passed(p) /\ filename[p] = NULL

FileUntouched == fileExists = file0.exists /\ fileContent = file0.content

\* Text of a line: no newline and no NUL in it.
IsText(s) == \A i \in 1..Len(s) : s[i] \notin {NL, NUL}

\* A well-formed queue file whose action is password.
WellFormedPassword(bytes) ==
    \E u \in LineChoices[1], pw \in LineChoices[4] :
        /\ IsText(u) /\ IsText(pw) /\ Len(pw) + 1 < BUFSIZ
        /\ bytes = JoinLines(<<u, S_ad, S_password, pw>>)

RECURSIVE SplitLines(_)
\* The lines of a file, without their newlines.
SplitLines(b) ==
    IF b = <<>> THEN <<>>
    ELSE IF \E i \in 1..Len(b) : b[i] = NL
    THEN LET k == CHOOSE i \in 1..Len(b) :
                      b[i] = NL /\ \A j \in 1..(i - 1) : b[j] # NL
         IN  <<SubSeq(b, 1, k - 1)>> \o SplitLines(SubSeq(b, k + 1, Len(b)))
    ELSE <<b>>

\* The backend call that the action line of a queue file names.
ActionKind(bytes) ==
    LET ls == SplitLines(bytes) IN
    IF Len(ls) < 3 THEN "none"
    ELSE IF ls[3] = S_password THEN "pwupdate_ad_change"
    ELSE IF ls[3] \in {S_enable, S_disable} THEN "pwupdate_ad_status"
    ELSE "none"

(***************************************************************************)
(* C1.                                                                     *)
(***************************************************************************)
\* C1 as claimed: for a well-formed queue file whose action is password, at
\* the exit of a queue-mode run the file has been deleted if and only if
\* pwupdate_ad_change returned success, and after a failed call the file is
\* still there with the same content.
C1_Original ==
    \A p \in Procs :
        (Exited(p) /\ QueueMode(p) /\ file0.exists
         /\ WellFormedPassword(file0.content))
        => /\ ~fileExists <=> Succeeded(p, "pwupdate_ad_change")
           /\ ~Succeeded(p, "pwupdate_ad_change") => FileUntouched

\* C1 amended: the file has been deleted if and only if pwupdate_ad_change
\* returned success and the unlink succeeded too; in every other case (the
\* backend call failed or was never reached, or the unlink failed) the file
\* is still there with the same content.
C1_DeletedIffBackendAndUnlinkOk ==
    \A p \in Procs :
        (Exited(p) /\ QueueMode(p) /\ file0.exists
         /\ WellFormedPassword(file0.content))
        => /\ ~fileExists <=> (/\ Succeeded(p, "pwupdate_ad_change")
                               /\ Succeeded(p, "unlink"))
           /\ fileExists => FileUntouched
           /\ Failed(p, "pwupdate_ad_change") => FileUntouched

\* A password record was replayed, the backend and the unlink succeeded and
\* the file is gone.
C1_Witness ==
    \E p \in Procs :
        /\ Exited(p) /\ QueueMode(p) /\ WellFormedPassword(file0.content)
        /\ Succeeded(p, "pwupdate_ad_change") /\ ~fileExists

(***************************************************************************)
(* C2.                                                                     *)
(***************************************************************************)
\* The direct-mode runs C2 is about: a password and enable or disable were
\* given and the bare argument was parsed into a principal.
C2_Case(p) ==
    /\ Exited(p) /\ DirectMode(p)
    /\ password[p] # NULL /\ (enable[p] = 1 \/ disable[p] = 1)
    /\ Succeeded(p, "krb5_parse_name")

\* C2 as claimed: in direct mode with a password and enable or disable, both
\* the password change and the status change are called, for the same
\* principal, the status change whatever the password change returned.
C2_Original ==
    \A p \in Procs :
        C2_Case(p)
        => /\ Made(p, "pwupdate_ad_change")
           /\ Made(p, "pwupdate_ad_status")

\* C2 amended: the password change is called first; the status change is
\* called, for the same principal, if and only if the password change
\* returned success (a failed password change is fatal and the status change
\* is skipped).
C2_StatusIffPasswordOk ==
    \A p \in Procs :
        C2_Case(p)
        => LET b == BackendCalls(p) IN
           /\ Len(b) >= 1 /\ b[1].fn = "pwupdate_ad_change"
           /\ b[1].princ = Ptr(Principal(S_user))
           /\ Made(p, "pwupdate_ad_status") <=> b[1].res = 0
           /\ Len(b) <= 2
           /\ Len(b) = 2 => /\ b[2].fn = "pwupdate_ad_status"
                            /\ b[2].princ = b[1].princ

\* Both calls were made, and the status change failed after the password
\* change succeeded.
C2_Witness ==
    \E p \in Procs :
        /\ C2_Case(p)
        /\ Succeeded(p, "pwupdate_ad_change")
        /\ Failed(p, "pwupdate_ad_status")

(***************************************************************************)
(* C3.                                                                     *)
(***************************************************************************)
\* C3, for the lines the parser reads: when a line read from the queue file
\* lacks its newline (it ends at end-of-file, or does not fit the buffer),
\* the run makes no backend call after it.
C3_NoBackendAfterUnterminatedLine ==
    \A p \in Procs :
        \A i \in Idx(p), j \in Idx(p) :
            (i < j /\ calls[p][i].fn = "read_line" /\ calls[p][i].en = 0)
            => ~IsBackend(calls[p][j])

(***************************************************************************)
(* C4.                                                                     *)
(***************************************************************************)
\* The mutually exclusive combinations of a command line.
ExclusiveCombo(a) ==
    \/ HasOpt(a, "e") /\ HasOpt(a, "d")
    \/ HasOpt(a, "f") /\ (HasOpt(a, "e") \/ HasOpt(a, "d") \/ HasOpt(a, "p"))
    \/ HasOpt(a, "f") /\ a.nbare > 0

\* C4: an invocation with a mutually exclusive combination never gets past
\* the validation: it makes no external call at all (no krb5_init_context,
\* pwupdate_init, krb5_parse_name, backend or file call) and its exit status
\* is not 0.
C4_ExclusiveRejectedBeforeAnyCall ==
    \A p \in Procs :
        ExclusiveCombo(argv[p])
        => /\ calls[p] = <<>>
           /\ pc[p] \in {"getopt", "validate", "exited"}
           /\ Exited(p) => Fatal(p)

\* An invocation with -f and -e has exited.
C4_Witness ==
    \E p \in Procs :
        /\ Exited(p) /\ filename[p] # NULL /\ enable[p] = 1
        /\ ~HasOpt(argv[p], "?")

(***************************************************************************)
(* C5.                                                                     *)
(***************************************************************************)
\* The command lines the specification's Validate accepts.
ValidCombo(a) ==
    /\ ~(HasOpt(a, "e") /\ HasOpt(a, "d"))
    /\ HasOpt(a, "e") \/ HasOpt(a, "d") \/ HasOpt(a, "p") \/ HasOpt(a, "f")
    /\ HasOpt(a, "f")
       => /\ ~HasOpt(a, "e") /\ ~HasOpt(a, "d") /\ ~HasOpt(a, "p")
          /\ a.nbare = 0
    /\ ~HasOpt(a, "f") => a.nbare = 1

\* C5: once the options are parsed (getopt reported no error) and the
\* validation has run, the invocation has passed if and only if its command
\* line is a valid combination; every other one has exited with a non-zero
\* status and no call made.
C5_PassesIffValidCombo ==
    \A p \in Procs :
        (pc[p] \notin {"idle", "getopt", "validate"} /\ ~HasOpt(argv[p], "?"))
        => /\ Passed(p) <=> ValidCombo(argv[p])
           /\ ~ValidCombo(argv[p]) => Fatal(p) /\ calls[p] = <<>>

\* A command line with a password, enable and one bare argument has passed.
C5_Witness ==
    \E p \in Procs :
        /\ Passed(p) /\ ~HasOpt(argv[p], "?")
        /\ password[p] # NULL /\ enable[p] = 1 /\ argv[p].nbare = 1

(***************************************************************************)
(* C6.                                                                     *)
(***************************************************************************)
\* C6: a queue-mode run that ended fatally left the queue file as it was:
\* still there (if it was there) with the same content.
C6_FatalLeavesFileUntouched ==
    \A p \in Procs :
        (QueueMode(p) /\ Fatal(p)) => FileUntouched

\* A queue-mode run died of a backend failure, with the file still there.
C6_Witness ==
    \E p \in Procs :
        /\ QueueMode(p) /\ Fatal(p) /\ fileExists
        /\ Len(BackendCalls(p)) = 1 /\ BackendCalls(p)[1].res # 0

(***************************************************************************)
(* C7.                                                                     *)
(***************************************************************************)
\* Every backend call the invocation selected was made and returned success.
SelectedCallsOk(p) ==
    /\ \A i \in Idx(p) : IsBackend(calls[p][i]) => calls[p][i].res = 0
    /\ DirectMode(p)
       => /\ password[p] # NULL => Made(p, "pwupdate_ad_change")
          /\ (enable[p] = 1 \/ disable[p] = 1)
             => Made(p, "pwupdate_ad_status")
    /\ QueueMode(p) => BackendCalls(p) # <<>>

\* C7: an invocation exits 0 only if it passed the validation, every backend
\* call it selected returned success and, in queue mode, the unlink
\* succeeded and the file is gone; and an invocation that exits after a
\* usage error or after any call that failed exits with a non-zero status.
C7_ExitZeroOnlyOnSuccess ==
    \A p \in Procs :
        /\ Done(p)
           => /\ Passed(p) /\ SelectedCallsOk(p)
              /\ QueueMode(p) => Succeeded(p, "unlink") /\ ~fileExists
        /\ (Exited(p)
            /\ (~Passed(p) \/ \E i \in Idx(p) : calls[p][i].res # 0))
           => status[p] # NULL /\ Deref(status[p]) # 0

\* A queue-mode run exited 0.
C7_Witness ==
    \E p \in Procs : Done(p) /\ QueueMode(p)

(***************************************************************************)
(* C8.                                                                     *)
(***************************************************************************)
\* C8: in queue mode, once the unlink has failed after a successful backend
\* call, the run has exited with a non-zero status and the file is still
\* there; it is never Done.
C8_UnlinkFailureIsFatal ==
    \A p \in Procs :
        Failed(p, "unlink")
        => /\ Fatal(p) /\ ~Done(p)
           /\ Len(BackendCalls(p)) = 1 /\ BackendCalls(p)[1].res = 0
           /\ fileExists /\ FileUntouched

\* The backend call succeeded and the unlink failed.
C8_Witness ==
    \E p \in Procs :
        /\ Failed(p, "unlink")
        /\ Succeeded(p, "pwupdate_ad_status")

(***************************************************************************)
(* C9.                                                                     *)
(***************************************************************************)
\* C9 as claimed: in queue mode the principal is resolved after the whole
\* record is parsed and validated: whenever krb5_parse_name has been called,
\* the target-system line and the action line have been read and found valid.
C9_Original ==
    \A p \in Procs :
        (QueueMode(p) /\ Made(p, "krb5_parse_name"))
        => /\ qflag[p].ad = 1
           /\ qflag[p].enable = 1 \/ qflag[p].disable = 1
              \/ qflag[p].password = 1

\* The calls of a queue-mode run after the plugin's initialization.
QueueTrace(p) ==
    IF Len(calls[p]) <= 2 THEN <<>> ELSE SubSeq(calls[p], 3, Len(calls[p]))

\* The two complete orders of a queue-mode run.
StatusOrder ==
    <<"fopen", "read_line", "krb5_parse_name", "read_line", "read_line",
      "pwupdate_ad_status", "unlink">>
PasswordOrder ==
    <<"fopen", "read_line", "krb5_parse_name", "read_line", "read_line",
      "read_line", "pwupdate_ad_change", "unlink">>

IsPrefixOf(t, full) ==
    /\ Len(t) <= Len(full)
    /\ \A i \in 1..Len(t) : t[i].fn = full[i]

\* C9 amended: in queue mode the steps happen in this order: the file is
\* opened, line 1 is read, its text is resolved by krb5_parse_name, then the
\* target-system line and the action line are read and validated (and the
\* password line when the action is password), then the executor is called,
\* then the file is closed and unlinked; each step is taken only after the
\* one before it succeeded.  The principal is resolved before lines 2 and 3
\* are read, hence also for a record whose target system or action is
\* invalid.
C9_QueueOrder ==
    \A p \in Procs :
        QueueMode(p)
        => LET t == QueueTrace(p) IN
           /\ IsPrefixOf(t, StatusOrder) \/ IsPrefixOf(t, PasswordOrder)
           /\ \A i \in 1..(Len(t) - 1) : t[i].res = 0
           /\ (Len(t) >= 4 /\ t[4].pw # S_ad) => Len(t) = 4 /\ Fatal(p)
           /\ Len(t) >= 6
              => IF t[6].fn = "read_line"
                 THEN t[5].pw = S_password
                 ELSE t[5].pw \in {S_enable, S_disable}

\* The principal of a record whose target system is not "ad" was resolved
\* and the run then died at the target-system line.
C9_Witness ==
    \E p \in Procs :
        /\ QueueMode(p) /\ Fatal(p)
        /\ Succeeded(p, "krb5_parse_name")
        /\ LastCall(p).fn = "read_line" /\ LastCall(p).pw = S_afs

(***************************************************************************)
(* C10.                                                                    *)
(***************************************************************************)
\* C10: a queue-mode run makes at most one backend call, and one that is
\* Done made exactly one, which returned success and is of the kind the
\* action line of the file names.
C10_OneBackendCall ==
    \A p \in Procs :
        QueueMode(p)
        => LET b == BackendCalls(p) IN
           /\ Len(b) <= 1
           /\ Len(b) = 1 => b[1].fn = ActionKind(file0.content)
           /\ Done(p) => Len(b) = 1 /\ b[1].res = 0 /\ ~fileExists

\* A queue-mode run of a password record is Done.
C10_Witness ==
    \E p \in Procs :
        /\ QueueMode(p) /\ Done(p)
        /\ ActionKind(file0.content) = "pwupdate_ad_change"

(***************************************************************************)
(* C11.                                                                    *)
(***************************************************************************)
\* The file has a complete target-system line that is not "ad", or, after
\* "ad", a complete action line that is none of the three literals.
BadRecord(bytes) ==
    LET ls == SplitLines(bytes)
        complete(i) == Len(ls) > i \/ (Len(ls) = i /\ bytes[Len(bytes)] = NL)
    IN  \/ complete(2) /\ ls[2] # S_ad
        \/ /\ complete(3) /\ ls[2] = S_ad
           /\ ls[3] \notin {S_enable, S_disable, S_password}

\* C11: a queue-mode run on a record whose target system is not "ad", or
\* whose action is not enable, disable or password, makes no backend call
\* and never unlinks the file, and when it has exited it has exited with a
\* non-zero status; when it died reading the record, it died at the line
\* that is wrong.
C11_BadRecordIsFatal ==
    \A p \in Procs :
        (QueueMode(p) /\ file0.exists /\ BadRecord(file0.content))
        => /\ BackendCalls(p) = <<>>
           /\ ~Made(p, "unlink")
           /\ FileUntouched
           /\ pc[p] \notin {"q_ad_password", "q_ad_status", "read_password",
                            "unlink", "exit"}
           /\ Exited(p) => Fatal(p)

\* A run read the action line "x" after "ad" and died there.
C11_Witness ==
    \E p \in Procs :
        /\ QueueMode(p) /\ Fatal(p) /\ BadRecord(file0.content)
        /\ LastCall(p).fn = "read_line" /\ LastCall(p).res = 0
        /\ LastCall(p).pw = S_bogus

(***************************************************************************)
(* C12.                                                                    *)
(***************************************************************************)
\* Line i of a file, without its newline (empty when there is none).
LineOf(bytes, i) ==
    IF Len(SplitLines(bytes)) >= i THEN SplitLines(bytes)[i] ELSE <<>>

\* The argument of a backend call is the one the input determines: in queue
\* mode from lines 3 and 4 of the file, in direct mode from the options.
ArgumentFromInput(p, c) ==
    /\ (QueueMode(p) /\ c.fn = "pwupdate_ad_status")
       => c.en = (IF LineOf(file0.content, 3) = S_enable THEN 1 ELSE 0)
    /\ (QueueMode(p) /\ c.fn = "pwupdate_ad_change")
       => /\ c.pw = LineOf(file0.content, 4)
          /\ c.len = Len(LineOf(file0.content, 4))
    /\ (DirectMode(p) /\ c.fn = "pwupdate_ad_status")
       => c.en = (IF HasOpt(argv[p], "e") THEN 1 ELSE 0)
    /\ (DirectMode(p) /\ c.fn = "pwupdate_ad_change")
       => c.pw = S_pw /\ c.len = Len(S_pw)

\* C12: every backend call carries the argument determined by the input:
\* enabled = true for enable and false for disable, and for a password the
\* content of line 4 (or the -p value) and its length.
C12_ArgumentsFromInput ==
    \A p \in Procs :
        \A i \in Idx(p) :
            IsBackend(calls[p][i]) => ArgumentFromInput(p, calls[p][i])

\* C12 for the records whose password line holds no NUL byte: there the
\* arguments are the ones the input determines.
C12_ArgumentsOfTextRecords ==
    \A p \in Procs :
        \A i \in Idx(p) :
            (/\ IsBackend(calls[p][i])
             /\ QueueMode(p) => IsText(LineOf(file0.content, 4)))
            => ArgumentFromInput(p, calls[p][i])

(***************************************************************************)
(* C13.                                                                    *)
(***************************************************************************)
\* Number of read_line calls a run has made.
Reads(p) == Cardinality({ i \in Idx(p) : calls[p][i].fn = "read_line" })

\* The password record whose payload line is empty.
EmptyPasswordFile == JoinLines(<<S_user, S_ad, S_password, <<>>>>)

\* C13: a queue-mode run of an enable or disable record reads three lines
\* and never a fourth, before and after its status change; a run of a
\* password record reads exactly one more line before its password change;
\* and an empty payload line is accepted (the step that reads it can go on
\* to the executor) and sent as the empty password with length 0.
C13_LinesReadByAction ==
    \A p \in Procs :
        QueueMode(p)
        => /\ Reads(p) <= 4
           /\ LineOf(file0.content, 3) \in {S_enable, S_disable}
              => Reads(p) <= 3
           /\ Made(p, "pwupdate_ad_status") => Reads(p) = 3
           /\ Made(p, "pwupdate_ad_change") => Reads(p) = 4
           /\ Done(p)
              => Reads(p) = (IF LineOf(file0.content, 3) = S_password
                             THEN 4 ELSE 3)
           /\ file0.content = EmptyPasswordFile
              => /\ pc[p] = "read_password"
                    => ENABLED (/\ pqf_read_password(p)
                                /\ pc'[p] = "q_ad_password")
                 /\ \A i \in Idx(p) :
                        calls[p][i].fn = "pwupdate_ad_change"
                        => calls[p][i].pw = <<>> /\ calls[p][i].len = 0

\* The empty payload line was read and sent as the empty password, and the
\* run is Done after four reads.
C13_Witness ==
    \E p \in Procs :
        /\ QueueMode(p) /\ Done(p) /\ Reads(p) = 4
        /\ file0.content = EmptyPasswordFile
        /\ Succeeded(p, "pwupdate_ad_change")

(***************************************************************************)
(* Specification: serialized invocations on the same queue file.           *)
(***************************************************************************)
\* The command line "krb5-sync -f q".
QueueCommand ==
    [opts |-> <<[opt |-> "f", arg |-> Ptr(QueuePath)]>>, nbare |-> 0]

\* The steps of main that an invocation with -f can take.
QueueStep(p) ==
    \/ main_getopt(p)
    \/ main_validate(p)
    \/ main_init_context(p)
    \/ main_pwupdate_init(p)
    \/ pqf_fopen(p)
    \/ pqf_read_user(p)
    \/ pqf_parse_name(p)
    \/ pqf_read_system(p)
    \/ pqf_read_action(p)
    \/ pqf_read_password(p)
    \/ pqf_unlink(p)
    \/ ad_password(p)
    \/ ad_status(p)
    \/ main_exit(p)

\* The external scheduler runs the program again on the queue file, once
\* every earlier invocation has exited: main is entered with -f q.
Invoke(p) ==
    /\ pc[p] = "idle"
    /\ \A q \in Procs : q < p => Exited(q)
    /\ argv' = [argv EXCEPT ![p] = QueueCommand]
    /\ pc' = [pc EXCEPT ![p] = "getopt"]
    /\ UNCHANGED <<optind, enable, disable, password, filename, status,
                   queueVars, nameVars, fileVars, envVars, calls>>

InitSerial == InitFile /\ InitProcs({1}) /\ InitEnv /\ argv[1] = QueueCommand

NextSerial ==
    \/ \E p \in Procs : QueueStep(p)
    \/ \E p \in Procs : Invoke(p)

SpecSerial == InitSerial /\ [][NextSerial]_vars

(***************************************************************************)
(* C14.                                                                    *)
(***************************************************************************)
\* The run applied the record: a backend call of it returned success.
Applied(p) ==
    \E i \in Idx(p) : IsBackend(calls[p][i]) /\ calls[p][i].res = 0

\* C14: across serialized queue-mode invocations on one file, once an
\* invocation is Done the file is gone and no later invocation opens it or
\* makes a backend call (it dies at fopen); and when two invocations both
\* applied the record, the earlier one exited with a non-zero status after
\* its unlink failed.
C14_NoSilentDoubleApply ==
    \A p \in Procs, q \in Procs :
        p < q
        => /\ Done(p)
              => /\ ~fileExists
                 /\ BackendCalls(q) = <<>>
                 /\ ~Succeeded(q, "fopen")
                 /\ Made(q, "fopen") => Fatal(q)
           /\ (Applied(p) /\ Applied(q))
              => Fatal(p) /\ Failed(p, "unlink")

\* The record was applied twice: the first invocation's unlink failed, the
\* second invocation is Done, and a third one died at fopen.
C14_Witness ==
    /\ Applied(1) /\ Failed(1, "unlink") /\ Fatal(1)
    /\ Applied(2) /\ Done(2)
    /\ Failed(3, "fopen") /\ Fatal(3)

(***************************************************************************)
(* C15.                                                                    *)
(***************************************************************************)
\* C15: across serialized invocations, every successful unlink of the queue
\* file follows a successful backend call of the same invocation, and when
\* the file that was there is gone, some invocation applied the record and
\* then unlinked it.
C15_DeletedOnlyAfterApplied ==
    /\ \A p \in Procs :
         \A j \in Idx(p) :
            (calls[p][j].fn = "unlink" /\ calls[p][j].res = 0)
            => \E i \in 1..(j - 1) :
                   IsBackend(calls[p][i]) /\ calls[p][i].res = 0
    /\ (file0.exists /\ ~fileExists)
       => \E p \in Procs : Applied(p) /\ Succeeded(p, "unlink")

\* The file was deleted by the second invocation, after the first one failed
\* at its backend call.
C15_Witness ==
    /\ file0.exists /\ ~fileExists
    /\ Failed(1, "pwupdate_ad_status") /\ Fatal(1)
    /\ Applied(2) /\ Succeeded(2, "unlink")

(***************************************************************************)
(* Specification: re-invocation until the queue file is replayed.          *)
(***************************************************************************)
\* The external scheduler runs the program again on the queue file that an
\* exited invocation left behind: a new process enters main with -f q.
Reinvoke(p) ==
    /\ Exited(p) /\ fileExists
    /\ argv' = [argv EXCEPT ![p] = QueueCommand]
    /\ optind' = [optind EXCEPT ![p] = 0]
    /\ enable' = [enable EXCEPT ![p] = 0]
    /\ disable' = [disable EXCEPT ![p] = 0]
    /\ password' = [password EXCEPT ![p] = NULL]
    /\ filename' = [filename EXCEPT ![p] = NULL]
    /\ pc' = [pc EXCEPT ![p] = "getopt"]
    /\ status' = [status EXCEPT ![p] = NULL]
    /\ fpos' = [fpos EXCEPT ![p] = NULL]
    /\ buffer' = [buffer EXCEPT ![p] = <<>>]
    /\ user' = [user EXCEPT ![p] = NULL]
    /\ principal' = [principal EXCEPT ![p] = NULL]
    /\ qflag' = [qflag EXCEPT
                   ![p] = [ad |-> 0, enable |-> 0, disable |-> 0,
                           password |-> 0]]
    /\ calls' = [calls EXCEPT ![p] = <<>>]
    /\ UNCHANGED <<fileVars, envVars>>

\* From some point on the library, the backend and the file system succeed.
Heal ==
    /\ ~healthy
    /\ healthy' = TRUE
    /\ UNCHANGED <<mainVars, queueVars, nameVars, fileVars, pc, status, calls>>

\* A step of an invocation in this environment: once the environment is
\* healthy, the call the step makes (if any) returns success.
HealthyStep(p) ==
    /\ QueueStep(p)
    /\ healthy
       => \/ calls'[p] = calls[p]
          \/ calls'[p][Len(calls'[p])].res = 0

NextRetry ==
    \/ \E p \in Procs : HealthyStep(p)
    \/ \E p \in Procs : Reinvoke(p)
    \/ Heal

\* A started process keeps running, and the scheduler keeps re-invoking.
SpecRetry ==
    /\ InitSerial
    /\ [][NextRetry]_vars
    /\ WF_vars(\E p \in Procs : HealthyStep(p))
    /\ WF_vars(\E p \in Procs : Reinvoke(p))

(***************************************************************************)
(* C16.                                                                    *)
(***************************************************************************)
\* A well-formed queue file: a principal, "ad", and enable or disable, or
\* password and a password that fits the buffer.
WellFormedRecord(bytes) ==
    \/ WellFormedPassword(bytes)
    \/ \E u \in LineChoices[1], act \in {S_enable, S_disable} :
           IsText(u) /\ bytes = JoinLines(<<u, S_ad, act>>)

\* The record has been replayed: an invocation applied it, unlinked the file
\* and exited 0.
Replayed ==
    \E p \in Procs :
        Done(p) /\ Applied(p) /\ Succeeded(p, "unlink") /\ ~fileExists

\* C16: for a well-formed queue file, with the scheduler re-invoking the
\* program on the undeleted file, once the library, the backend and the file
\* system have stopped failing the record is eventually replayed: applied,
\* the file deleted, and the invocation exited 0.
C16_RetryEventuallyReplays ==
    (healthy /\ file0.exists /\ WellFormedRecord(file0.content)) ~> Replayed

\* In the healthy environment a well-formed password record was replayed.
C16_Witness ==
    /\ healthy /\ file0.exists /\ WellFormedPassword(file0.content)
    /\ Replayed

(***************************************************************************)
(* Specification: two invocations running concurrently on one queue file.  *)
(***************************************************************************)
\* The processes that may run at the same time.
Concurrent == {1, 2}

\* A second invocation of "krb5-sync -f q" is started at any time, whatever
\* the first one is doing.
Launch(p) ==
    /\ p \in Concurrent
    /\ pc[p] = "idle"
    /\ argv' = [argv EXCEPT ![p] = QueueCommand]
    /\ pc' = [pc EXCEPT ![p] = "getopt"]
    /\ UNCHANGED <<optind, enable, disable, password, filename, status,
                   queueVars, nameVars, fileVars, envVars, calls>>

\* The steps of the running processes interleave.
NextConcurrent ==
    \/ \E p \in Procs : QueueStep(p)
    \/ \E p \in Procs : Launch(p)

SpecConcurrent == InitSerial /\ [][NextConcurrent]_vars

(***************************************************************************)
(* C17.                                                                    *)
(***************************************************************************)
\* C17: of two invocations running concurrently on one queue file at most
\* one exits 0, because at most one unlink of the file succeeds; when one is
\* Done the other, once exited, has exited with a non-zero status, and if
\* its own backend call had succeeded it died at the unlink.
C17_AtMostOneDone ==
    \A p \in Procs, q \in Procs :
        p # q
        => /\ ~(Done(p) /\ Done(q))
           /\ ~(Succeeded(p, "unlink") /\ Succeeded(q, "unlink"))
           /\ (Done(p) /\ Exited(q))
              => /\ Fatal(q)
                 /\ Applied(q) => Failed(q, "unlink")

\* Both invocations applied the record; one is Done and the other died at
\* the unlink.
C17_Witness ==
    \E p \in Procs, q \in Procs :
        /\ p # q
        /\ Done(p) /\ Applied(p)
        /\ Fatal(q) /\ Applied(q) /\ Failed(q, "unlink")

(***************************************************************************)
(* C18.                                                                    *)
(***************************************************************************)
\* The positions of main and process_queue_file, in the order of the code.
PcOrder ==
    <<"idle", "getopt", "validate", "init_context", "pwupdate_init",
      "fopen", "read_user", "parse_user", "read_system", "read_action",
      "read_password", "q_ad_password", "q_ad_status", "unlink",
      "parse_name", "d_ad_password", "d_ad_status", "exit", "exited">>
PcRank(label) == CHOOSE i \in 1..Len(PcOrder) : PcOrder[i] = label

\* A running invocation can always take a step, an exited one none; it has
\* an exit status exactly when it has exited; and a call that failed is the
\* last thing the invocation did before it exited with a non-zero status.
AbortsOnFirstFatal(p) ==
    /\ pc[p] \notin {"idle", "exited"} => ENABLED Step(p)
    /\ Exited(p) => ~ENABLED Step(p)
    /\ Exited(p) <=> status[p] # NULL
    /\ Exited(p) => (Done(p) /\ Deref(status[p]) = 0) \/ Fatal(p)
    /\ \A i \in Idx(p) :
           calls[p][i].res # 0 => i = Len(calls[p]) /\ Fatal(p)

\* Every step of an invocation moves it forward in the code (or to the next
\* option in the getopt loop), so it takes finitely many steps; and an
\* exited invocation does nothing more.
MovesForward(p) ==
    /\ \/ PcRank(pc'[p]) > PcRank(pc[p])
       \/ pc'[p] = pc[p] /\ pc[p] = "getopt" /\ optind'[p] > optind[p]
       \/ pc'[p] = pc[p] /\ calls'[p] = calls[p] /\ optind'[p] = optind[p]
    /\ Exited(p)
       => /\ pc'[p] = pc[p] /\ status'[p] = status[p]
          /\ calls'[p] = calls[p] /\ fpos'[p] = fpos[p]

\* C18: every invocation terminates, in exactly one of Done or Fatal: it is
\* never stuck before its exit, every step moves it forward, and it aborts
\* at the first fatal condition: after a failed call it makes no call, reads
\* no line and deletes nothing.
C18_TerminatesAtFirstFatal ==
    /\ [](\A p \in Procs : AbortsOnFirstFatal(p))
    /\ [][\A p \in Procs : MovesForward(p)]_vars

\* An invocation died of its first failed call after others had succeeded.
C18_Witness ==
    \E p \in Procs :
        /\ Fatal(p) /\ Len(calls[p]) >= 3
        /\ LastCall(p).fn = "fopen" /\ LastCall(p).res # 0

(***************************************************************************)
(* C19.                                                                    *)
(***************************************************************************)
\* C19: when krb5_parse_name fails, on the bare argument or on line 1 of the
\* queue file, the invocation dies there: the failed parse is its last call,
\* it makes no password-change or status-change call, and the queue file is
\* as it was.
C19_ParseFailureIsFatal ==
    \A p \in Procs :
        Failed(p, "krb5_parse_name")
        => /\ Fatal(p)
           /\ LastCall(p).fn = "krb5_parse_name"
           /\ BackendCalls(p) = <<>>
           /\ ~Made(p, "unlink")
           /\ FileUntouched
           /\ QueueMode(p) /\ Made(p, "fopen") => fileExists

\* Line 1 of an existing queue file failed to parse.
C19_Witness ==
    \E p \in Procs :
        /\ QueueMode(p) /\ Failed(p, "krb5_parse_name")
        /\ Succeeded(p, "fopen") /\ fileExists

(***************************************************************************)
(* C20.                                                                    *)
(***************************************************************************)
QueueLabels ==
    {"fopen", "read_user", "parse_user", "read_system", "read_action",
     "read_password", "q_ad_password", "q_ad_status", "unlink"}
DirectLabels == {"parse_name", "d_ad_password", "d_ad_status"}
QueueFns == {"fopen", "read_line", "unlink"}

\* C20: an invocation that passed the command-line checks is in one mode.
\* In direct mode it is never inside process_queue_file, it never opens,
\* reads or deletes the queue file, which stays as it was, and it parses its
\* name right after the plugin initialization.  In queue mode it is never
\* in main's direct branch, its name is parsed from a line just read, and it
\* makes at most one executor call.
C20_ModesNeverOverlap ==
    \A p \in Procs :
        /\ Passed(p) => (QueueMode(p) <=> ~DirectMode(p))
        /\ DirectMode(p)
           => /\ pc[p] \notin QueueLabels
              /\ fpos[p] = NULL
              /\ \A i \in Idx(p) : calls[p][i].fn \notin QueueFns
              /\ FileUntouched
              /\ \A i \in Idx(p) :
                     calls[p][i].fn = "krb5_parse_name"
                     => i > 1 /\ calls[p][i - 1].fn = "pwupdate_init"
        /\ QueueMode(p)
           => /\ pc[p] \notin DirectLabels
              /\ Len(BackendCalls(p)) <= 1
              /\ \A i \in Idx(p) :
                     calls[p][i].fn = "krb5_parse_name"
                     => i > 1 /\ calls[p][i - 1].fn = "read_line"
        /\ pc[p] \in QueueLabels => QueueMode(p)
        /\ pc[p] \in DirectLabels => DirectMode(p)

\* A direct-mode run changed the password and ended Done while a queue file
\* lay there, untouched.
C20_Witness ==
    \E p \in Procs :
        /\ DirectMode(p) /\ Done(p) /\ fileExists
        /\ Succeeded(p, "pwupdate_ad_change")

====
